---- MODULE Spec2Model ----
(***************************************************************************)
(* Model of mioty_heat_mapper.  wgs84.py: the Coord value type, the World  *)
(* constructor (the pixel-to-WGS84 frame solver) and World.to_wgs.         *)
(* Around it: State.validate_or_exit, the GUI session with State.save and  *)
(* State.load (state.py, gui.py), and generate_locadis (graph.py).         *)
(*                                                                         *)
(* Numbers.  The program computes in IEEE doubles: every arithmetic result *)
(* is rounded, so cos(phi)*lat - sin(phi)*lon is a small number of either  *)
(* sign rather than 0.  The model keeps that by computing in rounded       *)
(* fixed point:                                                            *)
(*   - a coordinate (lat, lon and every difference of them) is an integer  *)
(*     count of units of 1e-6/TolUnits degrees, so tol = 1e-6 is TolUnits; *)
(*   - a dimensionless factor (cos, sin, skew) and a stretch factor        *)
(*     (degrees per pixel) is an integer numerator over the denominator Q; *)
(*   - a product or quotient is rounded to the nearest representable       *)
(*     value (RoundDiv), half away from zero;                              *)
(*   - an angle is held as the pair (cos, sin) that math.cos and math.sin  *)
(*     return for it.                                                      *)
(* Rounding errors are a few units, far below TolUnits, as the errors of   *)
(* doubles are far below 1e-6 for coordinates in the WGS84 range.          *)
(***************************************************************************)
EXTENDS Integers, Sequences, FiniteSets, TLC

VARIABLES
    corners,   \* state.wgs84: <<bottom left, bottom right, top left>>
    width,     \* xmax handed to World(...)
    height,    \* ymax handed to World(...)
    err,       \* outcome of World(...): "none" before the call, "ok", or the exception raised
    world,     \* the constructed World, NoWorld when none was returned
    readers,   \* per caller of to_wgs: its position in to_wgs and its locals x, y, c
    state,     \* the State object of the application: configuration and locations
    fresh,     \* the State object that State.load fills (load_config)
    disk,      \* the files written: the saved configuration, measurements.jsonl
    proc       \* the process: where it stands, what it printed, its locals

vars == <<corners, width, height, err, world, readers, state, fresh, disk, proc>>

\* the variables of the application around the World
appVars == <<state, fresh, disk, proc>>

----------------------------------------------------------------------------
(* Bounds of the model.                                                    *)

\* grid of corner coordinates: k * Step for k in -MaxK..MaxK
MaxK == 2
\* distance of two neighbouring grid coordinates, in units (above TolUnits)
Step == 307
\* offset of the off-grid bottom-left corner, in units (below TolUnits)
Jitter == 41
\* denominator of the fixed-point factors
Q == 1000
\* width of the small image, in pixels
SmallW == 2
\* height of the small image, in pixels
SmallH == 3

\* the hypotenuse inside atan2 is computed to 1/HypScale units
HypScale == 10

\* tol = 1e-6 in almost_eq, in units
TolUnits == 100

\* the measured locations the "Plot" button asks for
MinBenchmarkPoints == 4

\* the data points generate_graph asks for
MinDataPoints == 4

\* the snr a value must exceed to be plotted: -5, in hundredths
SnrFloor == -500

\* measurements recorded per location
MaxResults == 1

\* locations of a stored survey that is plotted
PlotSize == 4

\* entries in the baseStations list of an uplink
MaxEntries == 2

\* messages that come in during a session
MaxMessages == 2

\* radius of the circle of a location on the floor map, in pixels
Radius == 7

----------------------------------------------------------------------------
(* Rounded arithmetic.                                                     *)

Abs(a) == IF a < 0 THEN -a ELSE a

Max(a, b) == IF a >= b THEN a ELSE b

Sign(a) == IF a < 0 THEN -1 ELSE 1

\* a / b rounded to the nearest integer, half away from zero; b # 0
RoundDiv(a, b) ==
    Sign(a) * Sign(b) * ((2 * Abs(a) + Abs(b)) \div (2 * Abs(b)))

RECURSIVE SqrtSearch(_, _, _)
SqrtSearch(n, lo, hi) ==
    IF lo >= hi THEN lo
    ELSE LET mid == (lo + hi + 1) \div 2
         IN  IF mid * mid <= n THEN SqrtSearch(n, mid, hi)
                               ELSE SqrtSearch(n, lo, mid - 1)

\* floor of the square root of n, 0 <= n < 2^30
ISqrt(n) == SqrtSearch(n, 0, 32767)

----------------------------------------------------------------------------
(* Coord                                                                   *)

\* Coord.__init__
Coord(lat, lon) == [lat |-> lat, lon |-> lon]

\* almost_eq: abs(f1 - f2) < max(tol, tol * max(abs(f1), abs(f2)));
\* 1.0 is 1000000 * TolUnits units, so tol * m units is m / 1000000 units
almost_eq(f1, f2) ==
    LET m == Max(Abs(f1), Abs(f2))
    IN  \/ Abs(f1 - f2) < TolUnits
        \/ Abs(f1 - f2) <= (m - 1) \div 1000000

\* Coord.__add__
CoordAdd(a, b) == Coord(a.lat + b.lat, a.lon + b.lon)

\* Coord.__sub__
CoordSub(a, b) == Coord(a.lat - b.lat, a.lon - b.lon)

\* Coord.__eq__ comparing the floats exactly
CoordEqExact(a, b) == a.lat = b.lat /\ a.lon = b.lon

\* Coord.__eq__
CoordEq(a, b) == almost_eq(a.lat, b.lat) /\ almost_eq(a.lon, b.lon)

\* math.atan2 called with its arguments exchanged: atan2(lon, lat)
atan2Exchanged(lat, lon) ==
    IF lat = 0 /\ lon = 0 THEN [c |-> Q, s |-> 0]
    ELSE LET r == ISqrt((lat * lat + lon * lon) * HypScale * HypScale)
         IN  [c |-> RoundDiv(lat * Q * HypScale, r),
              s |-> RoundDiv(lon * Q * HypScale, r)]

\* math.atan2(lat, lon), as the (cos, sin) of the angle; atan2(0, 0) = 0
atan2(lat, lon) ==
    IF lat = 0 /\ lon = 0 THEN [c |-> Q, s |-> 0]
    ELSE LET r == ISqrt((lat * lat + lon * lon) * HypScale * HypScale)
         IN  [c |-> RoundDiv(lon * Q * HypScale, r),
              s |-> RoundDiv(lat * Q * HypScale, r)]

\* -phi: cos is even, sin is odd
NegAngle(phi) == [c |-> phi.c, s |-> -phi.s]

\* cos(0.9 * pi) = -0.951057, as a factor over Q
CosLimit == -((951057 * Q) \div 1000000)

\* abs(phi) > math.pi * 0.9, phi in [-pi, pi]
AngleAbove09Pi(phi) == phi.c < CosLimit

\* Coord.rot_around_zero with the signs of the sines exchanged
rot_around_zero_ccw(p, phi) ==
    Coord(RoundDiv(phi.c * p.lat, Q) + RoundDiv(phi.s * p.lon, Q),
          RoundDiv(phi.c * p.lon, Q) - RoundDiv(phi.s * p.lat, Q))

\* Coord.rot_around_zero
rot_around_zero(p, phi) ==
    Coord(RoundDiv(phi.c * p.lat, Q) - RoundDiv(phi.s * p.lon, Q),
          RoundDiv(phi.s * p.lat, Q) + RoundDiv(phi.c * p.lon, Q))

\* Coord.skew_lon
skew_lon(p, skew) == Coord(p.lat, p.lon + RoundDiv(skew * p.lat, Q))

----------------------------------------------------------------------------
(* World.__init__, step by step.  Each operator is a local of the          *)
(* constructor as a function of its arguments.                             *)

\* self.trans = Coord(-p1._lat, -p1._lon)
Trans(cs) == Coord(-cs[1].lat, -cs[1].lon)

\* p1 == p2 or p1 == p3 or p2 == p3
Degenerate(cs) ==
    CoordEq(cs[1], cs[2]) \/ CoordEq(cs[1], cs[3]) \/ CoordEq(cs[2], cs[3])

\* p1 = p1 - p1
TransP1(cs) == CoordSub(cs[1], cs[1])

\* p2 = p2 - p1
TransP2(cs) == CoordSub(cs[2], cs[1])

\* p3 = p3 - p1
TransP3(cs) == CoordSub(cs[3], cs[1])

\* not almost_eq(p1._lat, 0.0) or not almost_eq(p1._lon, 0.0)
TranslateFailed(cs) ==
    ~almost_eq(TransP1(cs).lat, 0) \/ ~almost_eq(TransP1(cs).lon, 0)

\* phi1 = math.atan2(p2._lat, p2._lon)
Phi1(cs) == atan2(TransP2(cs).lat, TransP2(cs).lon)

\* p2 = p2.rot_around_zero(phi1)
RotP2(cs) == rot_around_zero(TransP2(cs), Phi1(cs))

\* p3 = p3.rot_around_zero(phi1)
RotP3(cs) == rot_around_zero(TransP3(cs), Phi1(cs))

\* not almost_eq(p2._lat, 0.0)
RotateFailed(cs) == ~almost_eq(RotP2(cs).lat, 0)

\* p2._lat < 0.0: the direction test reads the latitude of the rotated p2
WrongDirection(cs) == RotP2(cs).lat < 0

\* phi2 = math.atan2(p3._lat, p3._lon)
Phi2(cs) == atan2(RotP3(cs).lat, RotP3(cs).lon)

\* abs(phi2) > math.pi * 0.9
SkewUnreasonable(cs) == AngleAbove09Pi(Phi2(cs))

\* the division p3._lon / p3._lat raises ZeroDivisionError
SkewDivByZero(cs) == RotP3(cs).lat = 0

\* skew = p3._lon / p3._lat, for p3._lat # 0
Skew(cs) == RoundDiv(RotP3(cs).lon * Q, RotP3(cs).lat)

\* abs(skew) > 1.0
SkewOver45(cs) == Abs(Skew(cs)) > Q

\* p3 = p3.skew_lon(-skew)
SkewP3(cs) == skew_lon(RotP3(cs), -Skew(cs))

\* not almost_eq(p3._lon, 0.0)
SkewFailed(cs) == ~almost_eq(SkewP3(cs).lon, 0)

\* the constructor without its last check
FlippedUnchecked(cs) == FALSE

\* p3._lat < 0.0
Flipped(cs) == SkewP3(cs).lat < 0

\* the constructor reading the latitude of the rotated p2: p2._lat / width
StretchXFromLat(cs, w) == RoundDiv(RotP2(cs).lat * Q, w)

\* self.stretch_x = p2._lon / width, in units * Q per pixel
StretchX(cs, w) == RoundDiv(RotP2(cs).lon * Q, w)

\* self.stretch_y = p3._lat / height, in units * Q per pixel
StretchY(cs, h) == RoundDiv(SkewP3(cs).lat * Q, h)

\* the constructor with the message of the skew post-condition repeated in
\* the raise that follows it
InitErrorSameMessage(cs, w, h) ==
    IF Degenerate(cs) THEN "NotFarApart"
    ELSE IF TranslateFailed(cs) THEN "TranslateZero"
    ELSE IF RotateFailed(cs) THEN "RotateZero"
    ELSE IF WrongDirection(cs) THEN "WrongDirection"
    ELSE IF SkewUnreasonable(cs) THEN "SkewUnreasonable"
    ELSE IF SkewDivByZero(cs) THEN "ZeroDivisionError"
    ELSE IF SkewOver45(cs) THEN "SkewOver45"
    ELSE IF SkewFailed(cs) THEN "SkewZero"
    ELSE IF Flipped(cs) THEN "SkewZero"
    ELSE "ok"

\* The exception World(cs, w, h) raises, named by its message, or "ok",
\* for w > 0 and h > 0.  The checks are made in the order of the constructor.
InitError(cs, w, h) ==
    IF Degenerate(cs) THEN "NotFarApart"
    ELSE IF TranslateFailed(cs) THEN "TranslateZero"
    ELSE IF RotateFailed(cs) THEN "RotateZero"
    ELSE IF WrongDirection(cs) THEN "WrongDirection"
    ELSE IF SkewUnreasonable(cs) THEN "SkewUnreasonable"
    ELSE IF SkewDivByZero(cs) THEN "ZeroDivisionError"
    ELSE IF SkewOver45(cs) THEN "SkewOver45"
    ELSE IF SkewFailed(cs) THEN "SkewZero"
    ELSE IF Flipped(cs) THEN "Flipped"
    ELSE "ok"

\* The object World(cs, w, h) returns when no check fails.
InitWorld(cs, w, h) ==
    [wgs_bottom_left  |-> cs[1],
     wgs_bottom_right |-> cs[2],
     wgs_top_left     |-> cs[3],
     width            |-> w,
     height           |-> h,
     trans            |-> Trans(cs),
     skew             |-> Skew(cs),
     phi              |-> Phi1(cs),
     stretch_x        |-> StretchX(cs, w),
     stretch_y        |-> StretchY(cs, h)]

\* no World: the constructor was not called, or it raised
NoWorld == [none |-> TRUE]

----------------------------------------------------------------------------
(* World.to_wgs, step by step.                                             *)

\* to_wgs with the axes exchanged: Coord(x * self.stretch_x, y * self.stretch_y)
UnStretchSwapped(w, x, y) ==
    Coord(RoundDiv(x * w.stretch_x, Q), RoundDiv(y * w.stretch_y, Q))

\* c = Coord(y * self.stretch_y, x * self.stretch_x)
UnStretch(w, x, y) ==
    Coord(RoundDiv(y * w.stretch_y, Q), RoundDiv(x * w.stretch_x, Q))

\* to_wgs shearing by the magnitude of the latitude
UnSkewAbs(w, c) == Coord(c.lat, c.lon + RoundDiv(w.skew * Abs(c.lat), Q))

\* to_wgs shearing by -skew, as the constructor does
UnSkewNegated(w, c) == skew_lon(c, -w.skew)

\* c = c.skew_lon(self.skew)
UnSkew(w, c) == skew_lon(c, w.skew)

\* to_wgs rotating by +phi, as the constructor does
UnRotateForward(w, c) == rot_around_zero(c, w.phi)

\* c = c.rot_around_zero(-self.phi)
UnRotate(w, c) == rot_around_zero(c, NegAngle(w.phi))

\* c = c - self.trans
UnTranslate(w, c) == CoordSub(c, w.trans)

\* World.to_wgs(x, y)
to_wgs(w, x, y) == UnTranslate(w, UnRotate(w, UnSkew(w, UnStretch(w, x, y))))

----------------------------------------------------------------------------
(* The state machine: generate_locadis builds one World from the stored    *)
(* corners and the image size, then to_wgs is called on it.                *)

\* the coordinates of the grid
GridVals == {k * Step : k \in -MaxK..MaxK}

\* bottom-left corners: the origin, and a point within tol of a grid point
P1Set == {Coord(0, 0), Coord(Step + Jitter, -Step)}

\* bottom-right and top-left corners
GridPoints == {Coord(a, b) : a \in GridVals, b \in GridVals}

\* image sizes (width, height): a small image and the 800 x 600 of sanity_check_impl
Sizes == {<<SmallW, SmallH>>, <<800, 600>>}

\* the callers of to_wgs
Readers == {"r1", "r2"}

\* the pixel coordinates a caller passes: the three corners and a point
\* outside the image with a negative component, which both callers pass
Pixels(r, w, h) ==
    IF r = "r1" THEN {<<0, 0>>, <<w, 0>>, <<-1, h + 1>>}
                ELSE {<<0, h>>, <<-1, h + 1>>}

\* an Optional value: None, or a value
None == <<>>

Some(v) == <<v>>

\* the keys of QUALITY_FACTORS, in the order of the dict
QUALITY_FACTORS == <<"rssi", "snr", "eq_snr">>

\* State.__init__: both modes, every factor, no sub-measurements, no broker,
\* no locations; Path("") exists
NewState ==
    [modes                      |-> {"base", "acmqtti"},
     factors                    |-> QUALITY_FACTORS,
     sub_measurements           |-> FALSE,
     acmqtti_broker             |-> None,
     acmqtti_broker_tls_ca_cert |-> "None",
     map_path                   |-> "exists",
     file_format                |-> "svg",
     locations                  |-> <<>>]

\* no file has been written: the configuration is absent, measurements.jsonl
\* is None (Some(lines) once it is written)
NoFiles == [config |-> "absent", jsonl |-> None]

\* the process runs and has printed nothing; no location is selected, the
\* mouse has not clicked, no plot has been attempted, no message has come
\* in and record has not been called
Running(pc) ==
    [pc |-> pc, out |-> "", locs |-> <<>>, sel |-> 0, mouse |-> None,
     attempts |-> <<>>, handled |-> 0, message |-> None, calls |-> <<>>]

\* the application around the World is not looked at
AppIdle ==
    /\ state = NewState
    /\ fresh = NewState
    /\ disk = NoFiles
    /\ proc = Running("wgs84")

\* a caller outside to_wgs
Idle == [pc |-> "idle", x |-> 0, y |-> 0, c |-> Coord(0, 0)]

Init ==
    /\ corners \in {<<p1, p2, p3>> : p1 \in P1Set, p2 \in GridPoints, p3 \in GridPoints}
    /\ \E sz \in Sizes : width = sz[1] /\ height = sz[2]
    /\ err = "none"
    /\ world = NoWorld
    /\ readers = [r \in Readers |-> Idle]
    /\ AppIdle

\* the constructor translating the corners it was given in place
\* (p1, p2, p3 updated through the objects of the caller's tuple)
ConstructInPlace ==
    /\ err = "none"
    /\ err' = InitError(corners, width, height)
    /\ corners' = <<TransP1(corners), TransP2(corners), TransP3(corners)>>
    /\ world' = IF err' = "ok"
                THEN [InitWorld(corners, width, height) EXCEPT
                          !.wgs_bottom_left = corners'[1],
                          !.wgs_bottom_right = corners'[2],
                          !.wgs_top_left = corners'[3]]
                ELSE NoWorld
    /\ UNCHANGED <<width, height, readers>>
    /\ UNCHANGED appVars

\* world = wgs84.World(state.wgs84, xmax, ymax)
Construct ==
    /\ err = "none"
    /\ err' = InitError(corners, width, height)
    /\ world' = IF err' = "ok" THEN InitWorld(corners, width, height) ELSE NoWorld
    /\ UNCHANGED <<corners, width, height, readers>>
    /\ UNCHANGED appVars

\* a caller enters world.to_wgs(x, y) and un-stretches
CallUnStretch(r) ==
    /\ world # NoWorld
    /\ readers[r].pc = "idle"
    /\ \E pt \in Pixels(r, width, height) :
          readers' = [readers EXCEPT ![r] =
              [pc |-> "skew", x |-> pt[1], y |-> pt[2],
               c |-> UnStretch(world, pt[1], pt[2])]]
    /\ UNCHANGED <<corners, width, height, err, world>>
    /\ UNCHANGED appVars

\* to_wgs refusing a pixel left of or below the image
StepUnSkewInImage(r) ==
    /\ readers[r].pc = "skew"
    /\ readers[r].x >= 0 /\ readers[r].y >= 0
    /\ readers' = [readers EXCEPT ![r].pc = "rotate",
                                  ![r].c = UnSkew(world, readers[r].c)]
    /\ UNCHANGED <<corners, width, height, err, world>>
    /\ UNCHANGED appVars

\* c = c.skew_lon(self.skew)
StepUnSkew(r) ==
    /\ readers[r].pc = "skew"
    /\ readers' = [readers EXCEPT ![r].pc = "rotate",
                                  ![r].c = UnSkew(world, readers[r].c)]
    /\ UNCHANGED <<corners, width, height, err, world>>
    /\ UNCHANGED appVars

\* to_wgs negating the angle in place: self.phi = -self.phi, then
\* c = c.rot_around_zero(self.phi)
StepUnRotateInPlace(r) ==
    /\ readers[r].pc = "rotate"
    /\ world' = [world EXCEPT !.phi = NegAngle(world.phi)]
    /\ readers' = [readers EXCEPT ![r].pc = "translate",
                                  ![r].c = rot_around_zero(readers[r].c, world'.phi)]
    /\ UNCHANGED <<corners, width, height, err>>
    /\ UNCHANGED appVars

\* c = c.rot_around_zero(-self.phi)
StepUnRotate(r) ==
    /\ readers[r].pc = "rotate"
    /\ readers' = [readers EXCEPT ![r].pc = "translate",
                                  ![r].c = UnRotate(world, readers[r].c)]
    /\ UNCHANGED <<corners, width, height, err, world>>
    /\ UNCHANGED appVars

\* to_wgs translating in place: the result is stored in self.trans as well
StepUnTranslateInPlace(r) ==
    /\ readers[r].pc = "translate"
    /\ readers' = [readers EXCEPT ![r].pc = "return",
                                  ![r].c = UnTranslate(world, readers[r].c)]
    /\ world' = [world EXCEPT !.trans = UnTranslate(world, readers[r].c)]
    /\ UNCHANGED <<corners, width, height, err>>
    /\ UNCHANGED appVars

\* c = c - self.trans
StepUnTranslate(r) ==
    /\ readers[r].pc = "translate"
    /\ readers' = [readers EXCEPT ![r].pc = "return",
                                  ![r].c = UnTranslate(world, readers[r].c)]
    /\ UNCHANGED <<corners, width, height, err, world>>
    /\ UNCHANGED appVars

\* return c
Return(r) ==
    /\ readers[r].pc = "return"
    /\ readers' = [readers EXCEPT ![r] = Idle]
    /\ UNCHANGED <<corners, width, height, err, world>>
    /\ UNCHANGED appVars

Next ==
    \/ Construct
    \/ \E r \in Readers : CallUnStretch(r)
    \/ \E r \in Readers : StepUnSkew(r)
    \/ \E r \in Readers : StepUnRotate(r)
    \/ \E r \in Readers : StepUnTranslate(r)
    \/ \E r \in Readers : Return(r)

Spec == Init /\ [][Next]_vars

----------------------------------------------------------------------------
(* The same World with a caller that runs to_wgs to its return, as the     *)
(* list comprehension of generate_locadis does for each location.          *)

\* the x a location can have: left of the image, its left edge, inside, its
\* right edge
CallXs(w) == {-w, 0, w \div 2, w}

\* the y a location can have: below the image, its bottom edge, inside, its
\* top edge
CallYs(h) == {-h, 0, h \div 3, h}

\* world.to_wgs(loc.position[0], loc.position[1])
ToWgs ==
    /\ world # NoWorld
    /\ readers["r1"].pc = "idle"
    /\ \E x \in CallXs(width), y \in CallYs(height) :
          readers' = [readers EXCEPT !["r1"] =
              [pc |-> "return", x |-> x, y |-> y, c |-> to_wgs(world, x, y)]]
    /\ UNCHANGED <<corners, width, height, err, world>>
    /\ UNCHANGED appVars

NextCall ==
    \/ Construct
    \/ ToWgs
    \/ Return("r1")

SpecCall == Init /\ [][NextCall]_vars

----------------------------------------------------------------------------
(* State.validate_or_exit, called by main on the loaded configuration.     *)
(* A str is the sequence of its characters.                                *)

\* the characters int() accepts in the port of the model's brokers
Digits == {"0", "1", "8", "3"}

\* int(t) does not raise: t is a non-empty run of digits
IsInt(t) == Len(t) > 0 /\ \A i \in 1..Len(t) : t[i] \in Digits

\* len(b.split(":")): one more than the number of colons
RECURSIVE SplitLen(_)
SplitLen(b) ==
    IF b = <<>> THEN 1
    ELSE (IF Head(b) = ":" THEN 1 ELSE 0) + SplitLen(Tail(b))

\* b.split(":")[1], for a b with one colon
RECURSIVE AfterColon(_)
AfterColon(b) == IF Head(b) = ":" THEN Tail(b) ELSE AfterColon(Tail(b))

\* len(broker) != 2, or int(broker[1]) raises
NotHostPort(b) == SplitLen(b) # 2 \/ ~IsInt(AfterColon(b))

\* SUPPORTED_EXPORT_FILE_FORMATS has the format
SupportedFormat(f) == f \in {"png", "pdf", "ps", "eps", "svg"}

\* self.acmqtti_broker is not None and self.acmqtti_broker != ""
\* and Mode.ACMQTTI not in self.modes
BrokerCheck(st) ==
    /\ st.acmqtti_broker # None
    /\ st.acmqtti_broker # Some(<<>>)
    /\ "acmqtti" \notin st.modes

\* what validate_or_exit prints before exit(1), "" when it returns
ValidateMessage(st) ==
    IF st.map_path # "exists" THEN "Map file does not exist"
    ELSE IF BrokerCheck(st)
        THEN "MQTT Broker must be set when running ACMQTTI mode."
    ELSE IF st.acmqtti_broker # None /\ NotHostPort(st.acmqtti_broker[1])
        THEN "MQTT Broker must be configured as host:port."
    ELSE IF st.acmqtti_broker # None /\ st.acmqtti_broker_tls_ca_cert = "missing"
        THEN "MQTT Broker TLS CA Cert does not exist"
    ELSE IF ~SupportedFormat(st.file_format)
        THEN "Invalid export file format."
    ELSE ""

\* the brokers of a configuration: none, "", "h:1883", "h", "h:x", "h:1:3"
Brokers ==
    {None, Some(<<>>), Some(<<"h", ":", "1", "8", "8", "3">>), Some(<<"h">>),
     Some(<<"h", ":", "x">>), Some(<<"h", ":", "1", ":", "3">>)}

\* the configurations main hands to validate_or_exit
Configurations ==
    [modes                      : SUBSET {"base", "acmqtti"},
     acmqtti_broker             : Brokers,
     acmqtti_broker_tls_ca_cert : {"None", "exists", "missing"},
     map_path                   : {"exists", "missing"},
     file_format                : {"svg", "bmp"},
     locations                  : {<<>>}]

\* the World is not looked at
WgsIdle ==
    /\ corners = <<Coord(0, 0), Coord(0, Step), Coord(Step, 0)>>
    /\ width = SmallW
    /\ height = SmallH
    /\ err = "none"
    /\ world = NoWorld
    /\ readers = [r \in Readers |-> Idle]

wgsVars == <<corners, width, height, err, world, readers>>

InitValidate ==
    /\ WgsIdle
    /\ state \in Configurations
    /\ fresh = NewState
    /\ disk = NoFiles
    /\ proc = Running("validate")

\* config.validate_or_exit()
ValidateOrExit ==
    /\ proc.pc = "validate"
    /\ proc' = [proc EXCEPT !.out = ValidateMessage(state),
                            !.pc = IF ValidateMessage(state) = ""
                                   THEN "validated" ELSE "exit1"]
    /\ UNCHANGED <<state, fresh, disk>>
    /\ UNCHANGED wgsVars

NextValidate == ValidateOrExit

SpecValidate == InitValidate /\ [][NextValidate]_vars

----------------------------------------------------------------------------
(* The GUI session (start_gui), State.save on "Save Results", and          *)
(* State.load of the saved file by the next run of the application.        *)
(* A measured value is an integer count of hundredths.                     *)

\* the sequence s without its i-th element
RemoveAt(s, i) == SubSeq(s, 1, i - 1) \o SubSeq(s, i + 1, Len(s))

\* Location(position=mouse)
Location(mouse) ==
    [position        |-> mouse,
     is_base_station |-> FALSE,
     bs_key          |-> None,
     description     |-> None,
     measurements    |-> <<>>]

\* point_lies_within_circle
point_lies_within_circle(pt1, pt2) ==
    (pt1[1] - pt2[1]) * (pt1[1] - pt2[1]) + (pt1[2] - pt2[2]) * (pt1[2] - pt2[2])
        <= Radius * Radius

\* the index of the last location whose circle has the mouse, 0 if none
RECURSIVE LastHit(_, _, _)
LastHit(locs, mouse, i) ==
    IF i > Len(locs) THEN 0
    ELSE IF LastHit(locs, mouse, i + 1) # 0 THEN LastHit(locs, mouse, i + 1)
    ELSE IF point_lies_within_circle(mouse, locs[i].position) THEN i
    ELSE 0

\* the index of the first location whose circle has the mouse, 0 if none
RECURSIVE FirstHit(_, _, _)
FirstHit(locs, mouse, i) ==
    IF i > Len(locs) THEN 0
    ELSE IF point_lies_within_circle(mouse, locs[i].position) THEN i
    ELSE FirstHit(locs, mouse, i + 1)

\* where the operator clicks: three points in a row, each Radius pixels
\* from the next (the middle one is in the circles of both others, which
\* are not in each other's), and one far away
ClickPositions == {<<10, 20>>, <<17, 20>>, <<24, 20>>, <<40, 50>>}

\* Measurement(bs_key, ep_key, eq_snr, rssi, snr): each value is a float
\* or None; no sub-measurement
Measurement(eq_snr, rssi, snr) ==
    [bs_key |-> "bs", ep_key |-> "ep", eq_snr |-> eq_snr, rssi |-> rssi,
     snr |-> snr, sub_measurement |-> None]

\* the results State.load accepts from a file: eq_snr and rssi are numbers
\* (1.23 and -100.04), snr is a number (2.57) or null
StoredResults ==
    {Measurement(Some(123), Some(-10004), Some(257)),
     Measurement(Some(123), Some(-10004), None)}

\* the lists of at most MaxResults results
ResultLists == UNION {[1..n -> StoredResults] : n \in 0..MaxResults}

\* three locations of an earlier survey, away from where the operator
\* clicks, each with one result that has an snr
Survey ==
    [i \in 1..3 |->
        [Location(<<70, 30 * i>>) EXCEPT
            !.measurements = <<Measurement(Some(123), Some(-10004), Some(257))>>]]

\* the locations main has loaded before it starts the GUI: at most one
\* station, then at most one location with its results, then the survey
\* or nothing
InitialLocations ==
    {st \o pl \o sv :
        st \in {<<>>, <<[Location(<<40, 50>>) EXCEPT !.is_base_station = TRUE]>>},
        pl \in {<<>>} \cup
               {<<[Location(<<10, 20>>) EXCEPT !.measurements = ms]>> :
                   ms \in ResultLists},
        sv \in {<<>>, Survey}}

\* round(v, 1) of a v that is not half way between two tenths
Round1(v) == (IF v % 10 < 5 THEN v \div 10 ELSE v \div 10 + 1) * 10

\* round(v, 1) if v is not None else None
RoundOrNone(v) == IF v = None THEN None ELSE Some(Round1(v[1]))

\* the sub-sequence of the elements of s that satisfy Test
RECURSIVE SelectLocations(_, _)
SelectLocations(s, station) ==
    IF s = <<>> THEN <<>>
    ELSE (IF Head(s).is_base_station = station THEN <<Head(s)>> ELSE <<>>)
             \o SelectLocations(Tail(s), station)

\* the "sub" of a saved result: the lists of a SubMeasurement, rounded (a
\* frequency has no more than three decimals)
SavedSub(sub) ==
    IF sub = None THEN None
    ELSE Some([rssi |-> [i \in 1..Len(sub[1].rssi) |-> RoundOrNone(sub[1].rssi[i])],
               snr  |-> [i \in 1..Len(sub[1].snr) |-> RoundOrNone(sub[1].snr[i])],
               freq |-> sub[1].freq])

\* one entry of "results" in the saved file
SavedResult(m) ==
    [bs_key |-> m.bs_key, ep_key |-> m.ep_key,
     eq_snr |-> RoundOrNone(m.eq_snr), rssi |-> RoundOrNone(m.rssi),
     snr |-> RoundOrNone(m.snr), sub |-> SavedSub(m.sub_measurement)]

\* one entry of "locations" in the saved file
SavedLocation(loc) ==
    [x |-> loc.position[1], y |-> loc.position[2],
     results |-> [i \in 1..Len(loc.measurements) |->
                     SavedResult(loc.measurements[i])]]

\* one entry of "stations" in the saved file
SavedStation(loc) ==
    [bs_key |-> loc.bs_key, description |-> loc.description,
     x |-> loc.position[1], y |-> loc.position[2]]

\* the JSON document State.save writes
SavedConfig(st) ==
    LET plain == SelectLocations(st.locations, FALSE)
        marked == SelectLocations(st.locations, TRUE)
    IN  [configuration |->
             [modes |-> st.modes, factors |-> st.factors,
              sub_measurements |-> st.sub_measurements,
              acmqtti_broker |-> st.acmqtti_broker,
              acmqtti_broker_tls_ca_cert |-> st.acmqtti_broker_tls_ca_cert,
              map_path |-> st.map_path, file_format |-> st.file_format],
         locations |-> [i \in 1..Len(plain) |-> SavedLocation(plain[i])],
         stations |-> [i \in 1..Len(marked) |-> SavedStation(marked[i])]]

\* an assert of State.load on a stored result fails: eq_snr and rssi must
\* be numbers, snr may be null
ResultAssertFails(r) == r.eq_snr = None \/ r.rssi = None

\* State.load raises AssertionError and the application exits
LoadFails(cfg) ==
    \E i \in 1..Len(cfg.locations) :
        \E j \in 1..Len(cfg.locations[i].results) :
            ResultAssertFails(cfg.locations[i].results[j])

\* the Measurement State.load builds from a stored result
LoadedResult(r) ==
    [bs_key |-> r.bs_key, ep_key |-> r.ep_key, eq_snr |-> r.eq_snr,
     rssi |-> r.rssi, snr |-> r.snr, sub_measurement |-> r.sub]

\* the Location State.load builds from a stored station
LoadedStation(t) ==
    [position |-> <<t.x, t.y>>, is_base_station |-> TRUE, bs_key |-> t.bs_key,
     description |-> t.description, measurements |-> <<>>]

\* the Location State.load builds from a stored location
LoadedLocation(l) ==
    [position |-> <<l.x, l.y>>, is_base_station |-> FALSE, bs_key |-> None,
     description |-> None,
     measurements |-> [j \in 1..Len(l.results) |-> LoadedResult(l.results[j])]]

\* self.locations after State.load: the stations, then the locations
LoadedLocations(cfg) ==
    [i \in 1..Len(cfg.stations) |-> LoadedStation(cfg.stations[i])]
        \o [i \in 1..Len(cfg.locations) |-> LoadedLocation(cfg.locations[i])]

\* the factors State.load keeps: the keys of QUALITY_FACTORS that are
\* stored in the file, in the order of QUALITY_FACTORS
RECURSIVE KeepStored(_, _)
KeepStored(keys, stored) ==
    IF keys = <<>> THEN <<>>
    ELSE (IF \E i \in 1..Len(stored) : stored[i] = Head(keys)
          THEN <<Head(keys)>> ELSE <<>>) \o KeepStored(Tail(keys), stored)

StoredFactors(stored) == KeepStored(QUALITY_FACTORS, stored)

\* the State object after State.load has returned
LoadedState(cfg) ==
    [modes                      |-> cfg.configuration.modes,
     factors                    |-> StoredFactors(cfg.configuration.factors),
     sub_measurements           |-> cfg.configuration.sub_measurements,
     acmqtti_broker             |-> cfg.configuration.acmqtti_broker,
     acmqtti_broker_tls_ca_cert |-> cfg.configuration.acmqtti_broker_tls_ca_cert,
     map_path                   |-> cfg.configuration.map_path,
     file_format                |-> cfg.configuration.file_format,
     locations                  |-> LoadedLocations(cfg)]

\* main has loaded a configuration, with a broker or without, and has
\* started the GUI
InitGui ==
    /\ WgsIdle
    /\ \E b \in {None, Some(<<"h", ":", "1", "8", "8", "3">>)},
          ls \in InitialLocations :
          state = [NewState EXCEPT !.acmqtti_broker = b, !.locations = ls]
    /\ fresh = NewState
    /\ disk = NoFiles
    /\ proc = Running("gui")

\* event "Floor Map": select the location under the mouse, or add one there
FloorMap ==
    /\ proc.pc = "gui"
    /\ \E mouse \in ClickPositions :
          LET hit == FirstHit(state.locations, mouse, 1)
          IN  IF hit # 0
              THEN /\ proc' = [proc EXCEPT !.sel = hit, !.mouse = Some(mouse)]
                   /\ UNCHANGED state
              ELSE /\ state' = [state EXCEPT
                                    !.locations = Append(@, Location(mouse))]
                   /\ proc' = [proc EXCEPT !.sel = Len(state.locations) + 1,
                                           !.mouse = Some(mouse)]
    /\ UNCHANGED <<fresh, disk>>
    /\ UNCHANGED wgsVars

\* a "Delete" that removes the first location of the list
DeleteFirst ==
    /\ proc.pc = "gui"
    /\ proc.sel # 0
    /\ state' = [state EXCEPT !.locations = Tail(@)]
    /\ proc' = [proc EXCEPT !.sel = 0]
    /\ UNCHANGED <<fresh, disk>>
    /\ UNCHANGED wgsVars

\* event "Delete"
Delete ==
    /\ proc.pc = "gui"
    /\ proc.sel # 0
    /\ state' = [state EXCEPT !.locations = RemoveAt(@, proc.sel)]
    /\ proc' = [proc EXCEPT !.sel = 0]
    /\ UNCHANGED <<fresh, disk>>
    /\ UNCHANGED wgsVars

\* event "Measure": without a selected location that is no station, an
\* error popup; else acquire, which shows a popup when no broker is set and
\* otherwise calls acmqtti.measure(config, record) without its third
\* parameter lat_lon: the TypeError ends the GUI
Measure ==
    /\ proc.pc = "gui"
    /\ IF proc.sel = 0 \/ state.locations[proc.sel].is_base_station
       THEN proc' = [proc EXCEPT !.out = "Please select a measurement location."]
       ELSE IF state.acmqtti_broker = None
       THEN proc' = [proc EXCEPT !.out = "MQTT Broker not set."]
       ELSE proc' = [proc EXCEPT !.pc = "raised", !.out = "TypeError"]
    /\ UNCHANGED <<state, fresh, disk>>
    /\ UNCHANGED wgsVars

\* event "Mark/Un-Mark as Station"
MarkUnMark ==
    /\ proc.pc = "gui"
    /\ proc.sel # 0
    /\ state' = [state EXCEPT !.locations[proc.sel].is_base_station = ~@]
    /\ UNCHANGED <<fresh, disk, proc>>
    /\ UNCHANGED wgsVars

\* event "Clear All"
ClearAll ==
    /\ proc.pc = "gui"
    /\ state' = [state EXCEPT !.locations = <<>>]
    /\ proc' = [proc EXCEPT !.sel = 0]
    /\ UNCHANGED <<fresh, disk>>
    /\ UNCHANGED wgsVars

\* the locations that count for the "Plot" button: at least one measurement
ValidBenchmarkPoints(locs) ==
    Cardinality({i \in 1..Len(locs) : Len(locs[i].measurements) >= 1})

\* event "Plot": with enough measured locations the loop ends and
\* generate_graphs follows, else an error popup
Plot ==
    /\ proc.pc = "gui"
    /\ IF ValidBenchmarkPoints(state.locations) >= MinBenchmarkPoints
       THEN proc' = [proc EXCEPT !.sel = 0, !.pc = "plot"]
       ELSE proc' = [proc EXCEPT !.out = "Not enough measurements."]
    /\ UNCHANGED <<state, fresh, disk>>
    /\ UNCHANGED wgsVars

\* SubMeasurement.get(factor_key) prints "Unknown factor key" and exits
SubGetExits(factor_key) == factor_key \notin {"rssi", "snr"}

\* SubMeasurement.get(factor_key)
SubGet(sub, factor_key) == IF factor_key = "rssi" THEN sub.rssi ELSE sub.snr

\* Measurement.get(factor_key)
MeasurementGet(m, factor_key) ==
    IF factor_key = "rssi" THEN m.rssi
    ELSE IF factor_key = "snr" THEN m.snr
    ELSE m.eq_snr

\* bs_key is None or meas.bs_key == bs_key
ForStation(m, bs_key) == bs_key = None \/ Some(m.bs_key) = bs_key

\* generate_graph reaches SubMeasurement.get with a key it does not know:
\* sub-measurements are plotted and a plain location has a measurement with
\* a sub-measurement that is for the station of the plot
GraphExits(st, factor_key, bs_key) ==
    /\ st.sub_measurements
    /\ SubGetExits(factor_key)
    /\ \E i \in 1..Len(st.locations) :
          /\ ~st.locations[i].is_base_station
          /\ \E j \in 1..Len(st.locations[i].measurements) :
                /\ st.locations[i].measurements[j].sub_measurement # None
                /\ ForStation(st.locations[i].measurements[j], bs_key)

\* a value is present and its snr is present and above the floor
Usable(val, snr) == val # None /\ snr # None /\ snr[1] > SnrFloor

\* len(vals) > 0 for a location: one of its measurements for the station,
\* or one burst of their sub-measurements, has a usable value
HasVals(st, loc, factor_key, bs_key) ==
    \E j \in 1..Len(loc.measurements) :
        LET m == loc.measurements[j]
        IN  /\ ForStation(m, bs_key)
            /\ IF st.sub_measurements
               THEN /\ m.sub_measurement # None
                    /\ LET vals == SubGet(m.sub_measurement[1], factor_key)
                           snrs == m.sub_measurement[1].snr
                       IN  \E k \in 1..Len(vals) :
                               k <= Len(snrs) /\ Usable(vals[k], snrs[k])
               ELSE Usable(MeasurementGet(m, factor_key), m.snr)

\* len(data_points): the plain locations that have values
DataPoints(st, factor_key, bs_key) ==
    Cardinality({i \in 1..Len(st.locations) :
                    /\ ~st.locations[i].is_base_station
                    /\ HasVals(st, st.locations[i], factor_key, bs_key)})

\* how generate_graph(config_path, state, factor_key, bs_key) ends when it
\* does not exit
generate_graph(st, factor_key, bs_key) ==
    [factor_key |-> factor_key, bs_key |-> bs_key,
     data_points |-> DataPoints(st, factor_key, bs_key),
     result |-> IF DataPoints(st, factor_key, bs_key) < MinDataPoints
                THEN "skipped" ELSE "plotted"]

\* the base-station keys generate_graphs collects from all measurements
BaseStationKeys(st) ==
    UNION {{st.locations[i].measurements[j].bs_key :
                j \in 1..Len(st.locations[i].measurements)} :
              i \in 1..Len(st.locations)}

\* the number of calls of generate_graph that generate_graphs makes
AttemptCount(st) == Len(st.factors) * (1 + Cardinality(BaseStationKeys(st)))

\* the calls generate_graphs can make next: the global plots in the order
\* of the factors, then the plots of each station in that order; the
\* stations are taken in the order of a set
NextAttempts(st, done) ==
    LET n == Len(done)
        f == Len(st.factors)
    IN  IF f = 0 THEN {}
        ELSE IF n < f THEN {[factor_key |-> st.factors[n + 1], bs_key |-> None]}
        ELSE IF n % f # 0
        THEN {[factor_key |-> st.factors[(n % f) + 1], bs_key |-> done[n].bs_key]}
        ELSE {[factor_key |-> st.factors[1], bs_key |-> Some(b)] :
                 b \in BaseStationKeys(st) \
                          {done[i].bs_key[1] : i \in (f + 1)..n}}

\* generate_graphs, one call of generate_graph at a time
GenerateGraph ==
    /\ proc.pc = "plot"
    /\ \E a \in NextAttempts(state, proc.attempts) :
          IF GraphExits(state, a.factor_key, a.bs_key)
          THEN proc' = [proc EXCEPT !.pc = "exit1",
                                    !.out = "Unknown factor key"]
          ELSE proc' = [proc EXCEPT
                  !.attempts = Append(@, generate_graph(state, a.factor_key,
                                                        a.bs_key)),
                  !.pc = IF Len(proc.attempts) + 1 = AttemptCount(state)
                         THEN "plotted" ELSE "plot"]
    /\ UNCHANGED <<state, fresh, disk>>
    /\ UNCHANGED wgsVars

\* event "Save Results": state.save(config_path); the operator then leaves
SaveResults ==
    /\ proc.pc = "gui"
    /\ disk' = [disk EXCEPT !.config = SavedConfig(state)]
    /\ proc' = [proc EXCEPT !.sel = 0, !.pc = "saved",
                            !.out = "Configuration saved."]
    /\ UNCHANGED <<state, fresh>>
    /\ UNCHANGED wgsVars

\* the next run: load_config(config_path) on a fresh State
Load ==
    /\ proc.pc = "saved"
    /\ IF LoadFails(disk.config)
       THEN /\ proc' = [proc EXCEPT !.pc = "exit1",
                                    !.out = "Invalid value in config:"]
            /\ UNCHANGED fresh
       ELSE /\ proc' = [proc EXCEPT !.pc = "loaded", !.out = ""]
            /\ fresh' = LoadedState(disk.config)
    /\ UNCHANGED <<state, disk>>
    /\ UNCHANGED wgsVars

NextGui ==
    \/ FloorMap
    \/ Delete
    \/ Measure
    \/ MarkUnMark
    \/ ClearAll
    \/ SaveResults
    \/ Plot
    \/ GenerateGraph
    \/ Load

SpecGui == InitGui /\ [][NextGui]_vars

----------------------------------------------------------------------------
(* Mode "plot": main loads and validates a configuration and calls         *)
(* generate_graphs on it.                                                  *)

\* a SubMeasurement of one burst
OneBurst(rssi, snr) ==
    Some([rssi |-> <<rssi>>, snr |-> <<snr>>, freq |-> <<Some(86810)>>])

\* the results of a stored survey: from either of two stations, with a
\* sub-measurement or without, one without snr
PlotResults ==
    [plain  |-> Measurement(Some(123), Some(-10004), Some(257)),
     burst  |-> [Measurement(Some(123), Some(-10004), Some(257)) EXCEPT
                    !.bs_key = "b2",
                    !.sub_measurement = OneBurst(Some(-10004), Some(257))],
     silent |-> Measurement(Some(123), Some(-10004), None)]

\* the measurement lists of a location of a stored survey
PlotResultLists ==
    {<<PlotResults.plain>>, <<PlotResults.burst>>,
     <<PlotResults.plain, PlotResults.burst>>, <<PlotResults.silent>>}

\* the stored surveys: PlotSize locations, the first one a station or not
PlotLocations ==
    {[i \in 1..PlotSize |->
         [Location(<<70, 30 * i>>) EXCEPT
             !.measurements = ms[i],
             !.is_base_station = (i = 1 /\ marked)]] :
        ms \in [1..PlotSize -> PlotResultLists], marked \in BOOLEAN}

\* the factors of a stored configuration
PlotFactors == {QUALITY_FACTORS, <<"rssi", "snr">>, <<"eq_snr">>}

InitPlot ==
    /\ WgsIdle
    /\ \E fs \in PlotFactors, sub \in BOOLEAN, ls \in PlotLocations :
          state = [NewState EXCEPT !.factors = fs, !.sub_measurements = sub,
                                  !.locations = ls]
    /\ fresh = NewState
    /\ disk = NoFiles
    /\ proc = Running("plot")

NextPlot == GenerateGraph

SpecPlot == InitPlot /\ [][NextPlot]_vars

----------------------------------------------------------------------------
(* A session of acmqtti.measure: the messages the broker delivers to       *)
(* on_message, and the calls of record.  A topic is the sequence of its    *)
(* levels.                                                                 *)

\* the subpackets of an entry of baseStations: one burst
Subpackets ==
    [rssi |-> <<Some(-10004)>>, snr |-> <<Some(257)>>,
     frequency |-> <<Some(86810)>>]

\* the entries of baseStations: the bsEui is a JSON string or a JSON number
\* (given with the text str() makes of it), the subpackets are null or not
UplinkEntries ==
    {[bsEui |-> eui, eqSnr |-> Some(123), rssi |-> Some(-10004), snr |-> snr,
      subpackets |-> sub] :
        eui \in {[json |-> "string", text |-> "b1"], [json |-> "number", text |-> "70"]},
        snr \in {Some(257)},
        sub \in {None, Some(Subpackets)}}

\* the payloads of an uplink: at most MaxEntries entries
UplinkPayloads ==
    UNION {[1..n -> UplinkEntries] : n \in 0..MaxEntries}

\* the messages of the topics measure subscribes to, for the access point
\* "ac" and the end point "ep"
Messages ==
    {[topic |-> <<"locadis", "api_res">>, retain |-> FALSE, baseStations |-> <<>>],
     [topic |-> <<"mioty", "ac", "version">>, retain |-> TRUE, baseStations |-> <<>>]}
    \cup
    {[topic |-> <<"mioty", "ac", "v1", "ep", command>>, retain |-> r,
      baseStations |-> p] :
        command \in {"uplink", "uplinkDuplicate"}, r \in BOOLEAN,
        p \in UplinkPayloads}

\* str(ul_meta["bsEui"])
BsKey(bsEui) == bsEui.text

\* the sub-measurement of an entry: SubMeasurement(rssis, snrs, freqs) when
\* the entry has subpackets and config.sub_measurements is set
SubOf(entry, sub_measurements) ==
    IF entry.subpackets # None /\ sub_measurements
    THEN Some([rssi |-> entry.subpackets[1].rssi,
               snr  |-> entry.subpackets[1].snr,
               freq |-> entry.subpackets[1].frequency])
    ELSE None

\* the Measurement on_message builds of an entry
MeasurementOf(entry, ep_eui, sub_measurements) ==
    [bs_key |-> BsKey(entry.bsEui), ep_key |-> ep_eui, eq_snr |-> entry.eqSnr,
     rssi |-> entry.rssi, snr |-> entry.snr,
     sub_measurement |-> SubOf(entry, sub_measurements)]

\* the calls of record for an uplink, retained or not
UplinkCalls(m, sub_measurements) ==
    IF m.topic[5] \in {"uplink", "uplinkDuplicate"}
    THEN [i \in 1..Len(m.baseStations) |->
             MeasurementOf(m.baseStations[i], m.topic[4], sub_measurements)]
    ELSE <<>>

\* an on_message that does not look at message.retain
RecordCallsRetained(m, sub_measurements) ==
    IF m.topic = <<"locadis", "api_res">> THEN <<>>
    ELSE IF m.topic[3] = "version" THEN <<>>
    ELSE UplinkCalls(m, sub_measurements)

\* on_message: the Measurements it hands to record, in order
RecordCalls(m, sub_measurements) ==
    IF m.topic = <<"locadis", "api_res">> THEN <<>>
    ELSE IF m.topic[3] = "version" THEN <<>>
    ELSE IF m.retain THEN <<>>
    ELSE UplinkCalls(m, sub_measurements)

\* measure(config, record, lat_lon) has returned the client; config has
\* the sub_measurements of the State
InitMqtt ==
    /\ WgsIdle
    /\ \E sub \in BOOLEAN : state = [NewState EXCEPT !.sub_measurements = sub]
    /\ fresh = NewState
    /\ disk = NoFiles
    /\ proc = Running("mqtt")

\* the client thread calls on_message(client, userdata, message)
OnMessage ==
    /\ proc.pc = "mqtt"
    /\ proc.handled < MaxMessages
    /\ \E m \in Messages :
          proc' = [proc EXCEPT
              !.handled = @ + 1,
              !.message = Some(m),
              !.calls = @ \o RecordCalls(m, state.sub_measurements)]
    /\ UNCHANGED <<state, fresh, disk>>
    /\ UNCHANGED wgsVars

NextMqtt == OnMessage

SpecMqtt == InitMqtt /\ [][NextMqtt]_vars

----------------------------------------------------------------------------
(* generate_locadis, statement by statement: the check of state.wgs84, the *)
(* image, the World, the list of converted locations, measurements.jsonl.  *)

\* the state.wgs84 of a configuration: None, or three corners, among them
\* triples the constructor rejects
LocadisCorners ==
    {None} \cup
    {<<Coord(0, 0), p2, p3>> :
        p2 \in GridPoints, p3 \in {Coord(Step, 0), Coord(0, Step)}}

InitLocadis ==
    /\ corners \in LocadisCorners
    /\ width = 0
    /\ height = 0
    /\ err = "none"
    /\ world = NoWorld
    /\ readers = [r \in Readers |-> Idle]
    /\ \E mp \in {"exists", "missing"}, ls \in InitialLocations :
          state = [NewState EXCEPT !.map_path = mp, !.locations = ls]
    /\ fresh = NewState
    /\ disk = NoFiles
    /\ proc = Running("wgs84")

\* if state.wgs84 is None: print(...); exit(1)
CheckWgs84 ==
    /\ proc.pc = "wgs84"
    /\ proc' = IF corners = None
               THEN [proc EXCEPT !.pc = "exit1",
                        !.out = "Cannot generate locadis data without WGS84 coordinates"]
               ELSE [proc EXCEPT !.pc = "image"]
    /\ UNCHANGED <<state, fresh, disk>>
    /\ UNCHANGED wgsVars

\* load_image_as_png and xmax, ymax = img.size; exit(1) when it raises
LoadImage ==
    /\ proc.pc = "image"
    /\ IF state.map_path # "exists"
       THEN /\ proc' = [proc EXCEPT !.pc = "exit1",
                                    !.out = "Error loading background image"]
            /\ UNCHANGED <<width, height>>
       ELSE /\ proc' = [proc EXCEPT !.pc = "world"]
            /\ \E sz \in Sizes : width' = sz[1] /\ height' = sz[2]
    /\ UNCHANGED <<state, fresh, disk, corners, err, world, readers>>

\* a World for which to_wgs is the identity on (y, x)
DefaultWorld(cs, w, h) ==
    [InitWorld(cs, w, h) EXCEPT !.trans = Coord(0, 0), !.skew = 0,
                                !.phi = [c |-> Q, s |-> 0],
                                !.stretch_x = Q, !.stretch_y = Q]

\* generate_locadis catching the exception of World(...) and going on with
\* a default transform
LocadisWorldOrDefault ==
    /\ proc.pc = "world"
    /\ err' = InitError(corners, width, height)
    /\ world' = IF err' = "ok" THEN InitWorld(corners, width, height)
                ELSE DefaultWorld(corners, width, height)
    /\ proc' = [proc EXCEPT !.pc = "locs"]
    /\ UNCHANGED <<state, fresh, disk, corners, width, height, readers>>

\* world = wgs84.World(state.wgs84, xmax, ymax); an exception of the
\* constructor is not caught and ends generate_locadis
LocadisWorld ==
    /\ proc.pc = "world"
    /\ err' = InitError(corners, width, height)
    /\ world' = IF err' = "ok" THEN InitWorld(corners, width, height) ELSE NoWorld
    /\ proc' = IF err' = "ok" THEN [proc EXCEPT !.pc = "locs"]
               ELSE [proc EXCEPT !.pc = "raised", !.out = err']
    /\ UNCHANGED <<state, fresh, disk, corners, width, height, readers>>

\* locs = [(world.to_wgs(loc.position[0], loc.position[1]),
\*          [r for r in loc.measurements]) for loc in state.locations]
ConvertLocations ==
    /\ proc.pc = "locs"
    /\ proc' = [proc EXCEPT
                   !.pc = "write",
                   !.locs = [i \in 1..Len(state.locations) |->
                       [c |-> to_wgs(world, state.locations[i].position[1],
                                     state.locations[i].position[2]),
                        results |-> state.locations[i].measurements]]]
    /\ UNCHANGED <<state, fresh, disk>>
    /\ UNCHANGED wgsVars

\* json_rpc(_id, build_locadis_train_request(c.lat(), c.lon()))
TrainLine(id, c) ==
    [id |-> id, methods |-> "train", latitude |-> c.lat, longitude |-> c.lon]

\* json_rpc(_id, build_locadis_supply_rss_data_request(m))
SupplyLine(id, m) ==
    [id |-> id, method |-> "supplyRssData",
     rss |-> [id |-> m.bs_key, rssValue |-> m.rssi, snrValue |-> m.snr]]

\* lines in which a location without results uses up an id
RECURSIVE LocadisLinesGap(_, _)
LocadisLinesGap(locs, id) ==
    IF locs = <<>> THEN <<>>
    ELSE LET results == Head(locs).results
             n == Len(results)
         IN  IF n = 0 THEN LocadisLinesGap(Tail(locs), id + 1)
             ELSE <<TrainLine(id + 1, Head(locs).c)>>
                      \o [j \in 1..n |-> SupplyLine(id + 1 + j, results[j])]
                      \o LocadisLinesGap(Tail(locs), id + 1 + n)

\* the lines written for locs, the last id used being id: locations
\* without results are skipped
RECURSIVE LocadisLines(_, _)
LocadisLines(locs, id) ==
    IF locs = <<>> THEN <<>>
    ELSE LET results == Head(locs).results
             n == Len(results)
         IN  IF n = 0 THEN LocadisLines(Tail(locs), id)
             ELSE <<TrainLine(id + 1, Head(locs).c)>>
                      \o [j \in 1..n |-> SupplyLine(id + 1 + j, results[j])]
                      \o LocadisLines(Tail(locs), id + 1 + n)

\* with open(full_path, "w") as f: ... f.write
WriteJsonl ==
    /\ proc.pc = "write"
    /\ disk' = [disk EXCEPT !.jsonl = Some(LocadisLines(proc.locs, 0))]
    /\ proc' = [proc EXCEPT !.pc = "done"]
    /\ UNCHANGED <<state, fresh>>
    /\ UNCHANGED wgsVars

NextLocadis ==
    \/ CheckWgs84
    \/ LoadImage
    \/ LocadisWorld
    \/ ConvertLocations
    \/ WriteJsonl

SpecLocadis == InitLocadis /\ [][NextLocadis]_vars

----------------------------------------------------------------------------
(* Vocabulary of the claims.                                               *)

\* the messages of the constructor, by error kind of the taxonomy
DegenerateErrors == {"NotFarApart"}

FlippedErrors == {"WrongDirection", "Flipped"}

ExcessiveSkewErrors == {"SkewUnreasonable"}

SkewTooLargeErrors == {"SkewOver45"}

InternalErrors == {"TranslateZero", "RotateZero", "SkewZero"}

TaxonomyErrors ==
    DegenerateErrors \cup FlippedErrors \cup ExcessiveSkewErrors
        \cup SkewTooLargeErrors \cup InternalErrors

\* the constructor has returned a World
Constructed == err = "ok"

\* the constructor has raised
Failed == err \notin {"none", "ok"}

\* two floats within tol of each other; every coordinate of the model is
\* below 1.0, where max(tol, tol * max(|a|, |b|)) is tol
WithinTol(a, b) == Abs(a - b) < TolUnits

\* two corners equal under the tolerance
SameCorner(a, b) == WithinTol(a.lat, b.lat) /\ WithinTol(a.lon, b.lon)

\* the corners are pairwise distinct under the tolerance
Distinct ==
    /\ ~SameCorner(corners[1], corners[2])
    /\ ~SameCorner(corners[1], corners[3])
    /\ ~SameCorner(corners[2], corners[3])

----------------------------------------------------------------------------
(* C1 *)

\* C1: round trip.  On every constructed World, to_wgs(0, 0), to_wgs(width, 0)
\* and to_wgs(0, height) equal the bottom-left, bottom-right and top-left
\* corner under the tolerance, and so does every result a caller gets for
\* these pixels.
C1_RoundTrip ==
    Constructed =>
        /\ SameCorner(to_wgs(world, 0, 0), corners[1])
        /\ SameCorner(to_wgs(world, width, 0), corners[2])
        /\ SameCorner(to_wgs(world, 0, height), corners[3])
        /\ \A r \in Readers :
              readers[r].pc = "return" =>
                  /\ (readers[r].x = 0 /\ readers[r].y = 0)
                        => SameCorner(readers[r].c, corners[1])
                  /\ (readers[r].x = width /\ readers[r].y = 0)
                        => SameCorner(readers[r].c, corners[2])
                  /\ (readers[r].x = 0 /\ readers[r].y = height)
                        => SameCorner(readers[r].c, corners[3])

\* a frame with a translation, a rotation and a skew has returned the
\* bottom-right corner for (width, 0) and the top-left corner for (0, height)
C1_Witness ==
    /\ Constructed
    /\ corners[1] # Coord(0, 0)
    /\ world.skew # 0
    /\ world.phi.s # 0
    /\ readers["r1"].pc = "return" /\ readers["r1"].x = width
    /\ SameCorner(readers["r1"].c, corners[2])
    /\ readers["r2"].pc = "return" /\ readers["r2"].x = 0
    /\ SameCorner(readers["r2"].c, corners[3])

----------------------------------------------------------------------------
(* C2 *)

\* C2: degenerate rejection.  When two of the three corners are equal under
\* the tolerance, the constructor raises the not-far-apart exception and no
\* World exists, whatever the width and height.
C2_DegenerateRejected ==
    (err # "none" /\ ~Distinct) => (err \in DegenerateErrors /\ world = NoWorld)

\* two corners that differ, but by less than the tolerance, were rejected
C2_Witness ==
    /\ err \in DegenerateErrors
    /\ corners[1] # corners[2]
    /\ SameCorner(corners[1], corners[2])
    /\ ~SameCorner(corners[1], corners[3])
    /\ ~SameCorner(corners[2], corners[3])

----------------------------------------------------------------------------
(* C3 *)

\* C3: skew bound rejection.  For pairwise-distinct corners with
\* |phi2| <= 0.9 pi, the constructor raises the skew-too-large exception
\* whenever k = p3.lon / p3.lat (rotated values) has |k| > 1; every
\* constructed World has |skew| <= 1.
C3_SkewBoundRejected ==
    /\ ( /\ err # "none"
         /\ Distinct
         /\ ~AngleAbove09Pi(Phi2(corners))
         /\ RotP3(corners).lat # 0
         /\ Abs(Skew(corners)) > Q )
       => err \in SkewTooLargeErrors
    /\ Constructed => Abs(world.skew) <= Q

----------------------------------------------------------------------------
(* C4 *)

\* C4: excessive skew rejection.  For pairwise-distinct corners with
\* |phi2| > 0.9 pi, phi2 = atan2(p3.lat, p3.lon) of the rotated top-left
\* corner, the constructor raises the excessive-skew exception.
C4_ExcessiveSkewRejected ==
    (err # "none" /\ Distinct /\ AngleAbove09Pi(Phi2(corners)))
        => err \in ExcessiveSkewErrors

----------------------------------------------------------------------------
(* C5 *)

\* C5: direction check of the rotation step.  Once the corners are distinct
\* and the translation and rotation post-conditions hold, the constructor
\* raises the wrong-direction exception exactly when the longitude of the
\* rotated bottom-right corner is negative.
C5_DirectionCheckOnLon ==
    ( /\ err # "none"
      /\ ~Degenerate(corners)
      /\ ~TranslateFailed(corners)
      /\ ~RotateFailed(corners) )
    => (err = "WrongDirection" <=> RotP2(corners).lon < 0)

----------------------------------------------------------------------------
(* C6 *)

\* C6: mirrored-frame rejection.  For pairwise-distinct corners within the
\* skew-angle and skew-factor limits, a negative latitude of the rotated and
\* sheared top-left corner makes the constructor raise a flipped-axis
\* exception; every constructed World has that latitude >= 0.
C6_MirroredRejected ==
    /\ ( /\ Failed
         /\ Distinct
         /\ ~AngleAbove09Pi(Phi2(corners))
         /\ RotP3(corners).lat # 0
         /\ Abs(Skew(corners)) <= Q
         /\ SkewP3(corners).lat < 0 )
       => (err \in FlippedErrors /\ world = NoWorld)
    /\ Constructed => (world.stretch_y >= 0 /\ SkewP3(corners).lat >= 0)

\* a mirrored frame whose rotation step passed was rejected by the last check
C6_Witness ==
    /\ err = "Flipped"
    /\ Distinct
    /\ RotP2(corners).lat >= 0
    /\ Abs(Skew(corners)) <= Q
    /\ SkewP3(corners).lat < 0

----------------------------------------------------------------------------
(* C7 *)

\* C7: closed set of outcomes.  The constructor returns a World or raises one
\* of the exceptions of the taxonomy (degenerate, flipped axis, excessive
\* skew, skew too large, internal), also for collinear corners.
C7_ClosedOutcomes == err \in {"none", "ok"} \cup TaxonomyErrors

----------------------------------------------------------------------------
(* C8 *)

\* an arithmetic post-condition of the constructor does not hold
PostConditionFailed(cs) ==
    \/ TranslateFailed(cs)
    \/ RotateFailed(cs)
    \/ (RotP3(cs).lat # 0 /\ SkewFailed(cs))

----------------------------------------------------------------------------
(* C9 *)

\* C9: to_wgs is total.  On a constructed World every caller can enter to_wgs
\* with each of its pixels, negative and outside the image included; every
\* statement of to_wgs can be executed where a caller stands; what is
\* returned is a Coord; and the outcome of the construction stays "ok".
C9_ToWgsTotal ==
    \A r \in Readers :
        /\ (Constructed /\ readers[r].pc = "idle") => ENABLED CallUnStretch(r)
        /\ readers[r].pc = "skew" => ENABLED StepUnSkew(r)
        /\ readers[r].pc = "rotate" => ENABLED StepUnRotate(r)
        /\ readers[r].pc = "translate" => ENABLED StepUnTranslate(r)
        /\ readers[r].pc = "return" =>
              (readers[r].c.lat \in Int /\ readers[r].c.lon \in Int)
        /\ readers[r].pc # "idle" => Constructed

\* to_wgs has returned for a pixel with a negative x, above the image
C9_Witness ==
    /\ Constructed
    /\ readers["r2"].pc = "return"
    /\ readers["r2"].x < 0
    /\ readers["r2"].y > height

----------------------------------------------------------------------------
(* C10 *)

\* C10: frame immutability.  No step of any caller of to_wgs, however the
\* callers interleave, changes a field of the constructed World (trans, phi,
\* skew, stretch_x, stretch_y, width, height, the three corners).
C10_FrameImmutable == [][world # NoWorld => world' = world]_vars

\* one caller is about to return while the other is in the middle of to_wgs
C10_Witness ==
    /\ Constructed
    /\ readers["r1"].pc = "return"
    /\ readers["r2"].pc = "rotate"
    /\ world = InitWorld(corners, width, height)

----------------------------------------------------------------------------
(* C11 *)

\* C11: determinism.  On a constructed frame, what a caller of to_wgs gets
\* for (x, y) is the value of to_wgs on the frame's fields and (x, y) alone:
\* two callers that passed the same (x, y) hold the same result, bit for bit,
\* whatever steps of other calls ran in between.
C11_Deterministic ==
    /\ \A r \in Readers :
          readers[r].pc = "return" =>
              readers[r].c = to_wgs(world, readers[r].x, readers[r].y)
    /\ \A ra, rb \in Readers :
          ( /\ readers[ra].pc = "return" /\ readers[rb].pc = "return"
            /\ readers[ra].x = readers[rb].x /\ readers[ra].y = readers[rb].y )
          => readers[ra].c = readers[rb].c

\* both callers have passed the same pixel to a rotated and skewed frame and
\* both have their result
C11_Witness ==
    /\ Constructed
    /\ world.phi.s # 0
    /\ world.skew # 0
    /\ readers["r1"].pc = "return" /\ readers["r2"].pc = "return"
    /\ readers["r1"].x = -1 /\ readers["r2"].x = -1
    /\ readers["r1"].y = readers["r2"].y
    /\ readers["r1"].c = readers["r2"].c

----------------------------------------------------------------------------
(* C12 *)

\* the caller that runs to_wgs to its return has its result
Returned == Constructed /\ readers["r1"].pc = "return"

\* C12: linearity.  On a constructed frame, for the (x1, y) of a call and
\* every x2, to_wgs(x1 + x2, y) - to_wgs(x1, y) is within tol of
\* to_wgs(x2, 0) - to_wgs(0, 0); and for every y2,
\* to_wgs(x1, y + y2) - to_wgs(x1, y) is within tol of
\* to_wgs(0, y2) - to_wgs(0, 0).
C12_Linear ==
    Returned =>
        LET x1 == readers["r1"].x
            y == readers["r1"].y
            c == readers["r1"].c
            o == to_wgs(world, 0, 0)
        IN  /\ \A x2 \in CallXs(width) :
                  SameCorner(CoordSub(to_wgs(world, x1 + x2, y), c),
                             CoordSub(to_wgs(world, x2, 0), o))
            /\ \A y2 \in CallYs(height) :
                  SameCorner(CoordSub(to_wgs(world, x1, y + y2), c),
                             CoordSub(to_wgs(world, 0, y2), o))

\* to_wgs has returned for a pixel left of and below the image of a rotated
\* and skewed frame, and a step of one width changes the result by more
\* than tol
C12_Witness ==
    /\ Returned
    /\ world.phi.s # 0
    /\ world.skew # 0
    /\ readers["r1"].x < 0
    /\ readers["r1"].y < 0
    /\ ~SameCorner(to_wgs(world, readers["r1"].x + width, readers["r1"].y),
                   readers["r1"].c)

----------------------------------------------------------------------------
(* C13 *)

\* the skew checks of the constructor pass
SkewChecksPass(cs) ==
    ~SkewUnreasonable(cs) /\ ~SkewDivByZero(cs) /\ ~SkewOver45(cs)

\* C13: the internal post-conditions hold.  For pairwise-distinct corners in
\* the WGS84 range the constructor never raises an internal error: the
\* translated bottom-left corner is (0, 0), the latitude of the rotated
\* bottom-right corner is 0 under the tolerance and, when the skew checks
\* pass, so is the longitude of the sheared top-left corner.
C13_PostConditionsHold ==
    (err # "none" /\ Distinct) =>
        /\ err \notin InternalErrors
        /\ TransP1(corners) = Coord(0, 0)
        /\ ~TranslateFailed(corners)
        /\ ~RotateFailed(corners)
        /\ SkewChecksPass(corners) => ~SkewFailed(corners)

\* every check passed on a rotated and skewed frame where rounding left a
\* non-zero latitude on the rotated bottom-right corner
C13_Witness ==
    /\ Constructed
    /\ Distinct
    /\ corners[1] # Coord(0, 0)
    /\ world.phi.s # 0
    /\ world.skew # 0
    /\ RotP2(corners).lat # 0
    /\ almost_eq(RotP2(corners).lat, 0)
    /\ almost_eq(SkewP3(corners).lon, 0)

----------------------------------------------------------------------------
(* C14 *)

\* C14: invertibility.  Every constructed World has stretch_x > 0 and
\* stretch_y > 0, and to_wgs is injective: a pixel that differs from the
\* pixel of a call by at least half a width or a third of a height (far
\* enough for the difference to survive rounding) maps to another Coord.
C14_Invertible ==
    /\ Constructed => (world.stretch_x > 0 /\ world.stretch_y > 0)
    /\ Returned =>
          \A x2 \in CallXs(width), y2 \in CallYs(height) :
              <<x2, y2>> # <<readers["r1"].x, readers["r1"].y>>
                  => to_wgs(world, x2, y2) # readers["r1"].c

\* to_wgs has returned for a pixel inside the image of a rotated and skewed
\* frame with positive stretch factors
C14_Witness ==
    /\ Returned
    /\ world.phi.s # 0
    /\ world.skew # 0
    /\ world.stretch_x > 0 /\ world.stretch_y > 0
    /\ readers["r1"].x = width \div 2
    /\ readers["r1"].y = height \div 3
    /\ to_wgs(world, 0, 0) # readers["r1"].c

----------------------------------------------------------------------------
(* C15 *)

\* generate_locadis has no frame: no corners are stored, or the constructor
\* has raised
NoFrame == corners = None \/ Failed

\* C15: no silent fallback.  When state.wgs84 is None or the constructor of
\* World raises, generate_locadis ends there: no location is converted and
\* measurements.jsonl is not written.  Every converted location is to_wgs of
\* the World built from the stored corners and the image size, and the file
\* is written only after such a World was built.
C15_NoSilentFallback ==
    /\ NoFrame =>
          /\ proc.pc \in {"wgs84", "exit1", "raised"}
          /\ proc.locs = <<>>
          /\ disk.jsonl = None
    /\ proc.pc \in {"locs", "write", "done"} =>
          /\ Constructed
          /\ world = InitWorld(corners, width, height)
    /\ \A i \in 1..Len(proc.locs) :
          proc.locs[i].c = to_wgs(InitWorld(corners, width, height),
                                  state.locations[i].position[1],
                                  state.locations[i].position[2])
    /\ disk.jsonl # None => Constructed

\* the constructor has raised on the corners of a configuration with a
\* measured location: generate_locadis has ended and no file exists
C15_Witness ==
    /\ Failed
    /\ proc.pc = "raised"
    /\ \E i \in 1..Len(state.locations) : state.locations[i].measurements # <<>>
    /\ proc.locs = <<>>
    /\ disk.jsonl = None

----------------------------------------------------------------------------
(* C16 *)

\* C16: Coord operations are pure.  No step of the constructor or of a caller
\* of to_wgs changes a Coord it was handed: the corners keep their values
\* (and the World's three corner fields are those corners), the translation
\* that to_wgs subtracts keeps its value, and a step of one caller leaves the
\* Coord every other caller holds as it was.
C16_CoordsPure ==
    [][ /\ corners' = corners
        /\ world' # NoWorld =>
              /\ world'.wgs_bottom_left = corners[1]
              /\ world'.wgs_bottom_right = corners[2]
              /\ world'.wgs_top_left = corners[3]
              /\ world'.trans = Trans(corners)
        /\ \A r \in Readers :
              readers'[r] # readers[r] =>
                  \A q \in Readers \ {r} : readers'[q] = readers[q]
      ]_vars

\* a frame whose bottom-left corner is not the origin was built, one caller
\* has subtracted the translation and the other has rotated its Coord
C16_Witness ==
    /\ Constructed
    /\ corners[1] # Coord(0, 0)
    /\ world.wgs_bottom_left = corners[1]
    /\ world.phi.s # 0
    /\ readers["r1"].pc = "return"
    /\ readers["r2"].pc = "translate"

----------------------------------------------------------------------------
(* C19 *)

\* the Coord a caller holds after each statement of to_wgs, from (x, y) and
\* the fields of the frame
AfterStretch(w, x, y) ==
    Coord(RoundDiv(y * w.stretch_y, Q), RoundDiv(x * w.stretch_x, Q))

AfterSkew(w, x, y) == skew_lon(AfterStretch(w, x, y), w.skew)

AfterRotate(w, x, y) == rot_around_zero(AfterSkew(w, x, y), NegAngle(w.phi))

AfterTranslate(w, x, y) == CoordAdd(AfterRotate(w, x, y), w.wgs_bottom_left)

\* C19: the pipeline of to_wgs.  On a constructed frame a caller holds, in
\* this order, (lat = y * stretch_y, lon = x * stretch_x), that point sheared
\* by skew_lon(+skew), that point rotated by -phi, and that point minus the
\* stored translation, which is that point plus the bottom-left corner; the
\* last one is what to_wgs(x, y) returns.
C19_Pipeline ==
    \A r \in Readers :
        LET x == readers[r].x
            y == readers[r].y
        IN  /\ readers[r].pc = "skew" => readers[r].c = AfterStretch(world, x, y)
            /\ readers[r].pc = "rotate" => readers[r].c = AfterSkew(world, x, y)
            /\ readers[r].pc = "translate" =>
                  readers[r].c = AfterRotate(world, x, y)
            /\ readers[r].pc = "return" =>
                  /\ readers[r].c = AfterTranslate(world, x, y)
                  /\ readers[r].c = to_wgs(world, x, y)

\* to_wgs has returned for a pixel with x # y and both non-zero, on a frame
\* with a translation, a rotation, a skew and two different stretch factors
C19_Witness ==
    /\ Constructed
    /\ corners[1] # Coord(0, 0)
    /\ world.phi.s # 0
    /\ world.skew # 0
    /\ world.stretch_x # world.stretch_y
    /\ readers["r2"].pc = "return"
    /\ readers["r2"].x = -1
    /\ readers["r2"].y = height + 1
    /\ readers["r2"].c = AfterTranslate(world, -1, height + 1)

----------------------------------------------------------------------------
(* C20 *)

\* bottomLeft + (x / width) * (bottomRight - bottomLeft)
\*            + (y / height) * (topLeft - bottomLeft)
AffineInterpolation(cs, w, h, x, y) ==
    Coord(cs[1].lat + RoundDiv(x * (cs[2].lat - cs[1].lat), w)
                    + RoundDiv(y * (cs[3].lat - cs[1].lat), h),
          cs[1].lon + RoundDiv(x * (cs[2].lon - cs[1].lon), w)
                    + RoundDiv(y * (cs[3].lon - cs[1].lon), h))

\* C20: reference equivalence.  On every constructed World and for every
\* (x, y) of a call, inside the image or outside, what to_wgs returns is
\* within tol of the affine interpolation between the three corners.
C20_AffineReference ==
    Returned =>
        SameCorner(readers["r1"].c,
                   AffineInterpolation(corners, width, height,
                                       readers["r1"].x, readers["r1"].y))

\* to_wgs has returned for a pixel left of the image and inside its height,
\* on a frame with a translation, a rotation and a skew, more than tol away
\* from each of the three corners
C20_Witness ==
    /\ Returned
    /\ corners[1] # Coord(0, 0)
    /\ world.phi.s # 0
    /\ world.skew # 0
    /\ readers["r1"].x = -width
    /\ readers["r1"].y = height \div 3
    /\ \A i \in 1..3 : ~SameCorner(readers["r1"].c, corners[i])

----------------------------------------------------------------------------
(* C18 *)

\* C18: the broker consistency check.  When the map file exists,
\* validate_or_exit exits with 'MQTT Broker must be set when running ACMQTTI
\* mode.' exactly when ACMQTTI is among the modes and no broker is
\* configured (None or the empty string).
C18_BrokerMustBeSet ==
    (proc.pc \in {"validated", "exit1"} /\ state.map_path = "exists") =>
        ( proc.out = "MQTT Broker must be set when running ACMQTTI mode."
          <=> ( /\ "acmqtti" \in state.modes
                /\ state.acmqtti_broker \in {None, Some(<<>>)} ) )

----------------------------------------------------------------------------
(* C17 *)

\* what the claim compares of a location: its position, its station flag
\* and its measurements, with the values as save rounds them
Restorable(loc) ==
    [position |-> loc.position, is_base_station |-> loc.is_base_station,
     measurements |->
         [j \in 1..Len(loc.measurements) |->
             [loc.measurements[j] EXCEPT !.eq_snr = RoundOrNone(@),
                                         !.rssi = RoundOrNone(@),
                                         !.snr = RoundOrNone(@)]]]

\* the locations of a State, as the set the claim compares
RestorableSet(st) ==
    {Restorable(st.locations[i]) : i \in 1..Len(st.locations)}

\* C17: save / load round trip.  For every State the GUI reaches, State.load
\* of the file State.save wrote does not exit, and the loaded State has the
\* same set of locations: same positions, same station flags and, per
\* location, the same measurements up to the rounding of save.
C17_SaveLoadRoundTrip ==
    /\ proc.pc # "exit1"
    /\ proc.pc = "loaded" => RestorableSet(fresh) = RestorableSet(state)

----------------------------------------------------------------------------
(* C21 *)

\* the distance of p from the origin, rounded down to a unit
Distance(p) == ISqrt(p.lat * p.lat + p.lon * p.lon)

\* C21: the rotation step.  For every translated bottom-right corner other
\* than the origin, rot_around_zero by phi1 = atan2(p2.lat, p2.lon) gives a
\* latitude of 0 under the tolerance and a longitude that is the distance of
\* bottom-left and bottom-right under the tolerance, and positive; the same
\* rotation keeps the distance of the top-left corner from the origin, and
\* rot_around_zero by -phi1 takes both corners back.
C21_RotationStep ==
    (err # "none" /\ TransP2(corners) # Coord(0, 0)) =>
        /\ almost_eq(RotP2(corners).lat, 0)
        /\ WithinTol(RotP2(corners).lon, Distance(TransP2(corners)))
        /\ RotP2(corners).lon > 0
        /\ WithinTol(Distance(RotP3(corners)), Distance(TransP3(corners)))
        /\ SameCorner(rot_around_zero(RotP2(corners), NegAngle(Phi1(corners))),
                      TransP2(corners))
        /\ SameCorner(rot_around_zero(RotP3(corners), NegAngle(Phi1(corners))),
                      TransP3(corners))

\* the constructor has rotated a bottom-right corner that lies on neither
\* axis, several tolerances away from the bottom-left corner, and a top-left
\* corner that the rotation moved
C21_Witness ==
    /\ err # "none"
    /\ TransP2(corners).lat # 0
    /\ TransP2(corners).lon # 0
    /\ RotP2(corners).lon > 4 * TolUnits
    /\ almost_eq(RotP2(corners).lat, 0)
    /\ ~SameCorner(RotP3(corners), TransP3(corners))

----------------------------------------------------------------------------
(* C22 *)

\* the first check an input violates, in the order degenerate corners,
\* translation zero, rotation zero, rotation direction (the longitude of the
\* rotated bottom-right corner is negative), skew angle, shear factor, skew
\* zero, mirrored frame; "ok" when it violates none
FirstViolated(cs) ==
    IF Degenerate(cs) THEN "NotFarApart"
    ELSE IF TranslateFailed(cs) THEN "TranslateZero"
    ELSE IF RotateFailed(cs) THEN "RotateZero"
    ELSE IF RotP2(cs).lon < 0 THEN "WrongDirection"
    ELSE IF SkewUnreasonable(cs) THEN "SkewUnreasonable"
    ELSE IF SkewOver45(cs) THEN "SkewOver45"
    ELSE IF SkewFailed(cs) THEN "SkewZero"
    ELSE IF Flipped(cs) THEN "Flipped"
    ELSE "ok"

\* C22: the order of the checks.  Where the shear factor is defined or is
\* not reached, the constructor reports the first check the input violates;
\* an input with |phi2| > 0.9 pi that passes the checks before the skew
\* angle is reported as excessive skew, and no input with |phi2| > 0.9 pi
\* is reported as skew too large.
C22_FirstViolatedReported ==
    (err # "none" /\ (RotP3(corners).lat # 0 \/ SkewUnreasonable(corners))) =>
        /\ err = FirstViolated(corners)
        /\ SkewUnreasonable(corners) => err # "SkewOver45"

----------------------------------------------------------------------------
(* C30 *)

\* C30: an accepted "Plot" plots.  In a GUI session every global plot that
\* generate_graphs attempts after the "Plot" button was accepted is
\* generated, and none is skipped for too few data points.
C30_AcceptedPlotIsGenerated ==
    \A i \in 1..Len(proc.attempts) :
        proc.attempts[i].bs_key = None => proc.attempts[i].result = "plotted"

----------------------------------------------------------------------------
(* C25 *)

\* the attempts of generate_graphs for one factor and one station key (None:
\* the global plot)
AttemptsFor(factor_key, bs_key) ==
    {i \in 1..Len(proc.attempts) :
        /\ proc.attempts[i].factor_key = factor_key
        /\ proc.attempts[i].bs_key = bs_key}

\* C25: plot coverage.  generate_graphs never ends the process, and when it
\* has returned it has attempted, for every configured factor, exactly one
\* global plot and one plot per base-station key of the measurements; each
\* attempt was written or skipped.
C25_PlotCoverage ==
    /\ proc.pc # "exit1"
    /\ proc.pc = "plotted" =>
          \A f \in 1..Len(state.factors) :
              \A k \in {None} \cup {Some(b) : b \in BaseStationKeys(state)} :
                  /\ Cardinality(AttemptsFor(state.factors[f], k)) = 1
                  /\ \A i \in AttemptsFor(state.factors[f], k) :
                        proc.attempts[i].result \in {"plotted", "skipped"}

----------------------------------------------------------------------------
(* C23 *)

\* C23: measurement acquisition.  "Measure" on a selected location that is
\* no station, with a broker configured, reaches acmqtti.measure and starts
\* the session: the call raises no TypeError.
C23_MeasureStartsSession == ~(proc.pc = "raised" /\ proc.out = "TypeError")

----------------------------------------------------------------------------
(* C26 *)

\* C26: the selection is in the list.  After every GUI event the selection
\* is no location or a location of the list; and an event that takes
\* locations away clears the selection and has taken either all of them
\* ("Clear All") or exactly the one that was selected ("Delete").
C26_SelectionInList ==
    [][/\ proc'.sel \in 0..Len(state'.locations)
       /\ Len(state'.locations) < Len(state.locations) =>
             /\ proc'.sel = 0
             /\ \/ state'.locations = <<>>
                \/ /\ proc.sel # 0
                   /\ state'.locations = RemoveAt(state.locations, proc.sel)]_vars

\* "Delete" has removed a location of a longer list: nothing is selected
\* though the operator has added the location at (17, 20), and the loaded
\* location at (10, 20) is gone
C26_Witness ==
    /\ proc.pc = "gui"
    /\ proc.sel = 0
    /\ \E i \in 1..Len(state.locations) : state.locations[i].position = <<17, 20>>
    /\ \E i \in 1..Len(state.locations) : state.locations[i].position = <<70, 30>>
    /\ \A i \in 1..Len(state.locations) : state.locations[i].position # <<10, 20>>

----------------------------------------------------------------------------
(* C27 *)

\* C27: stations carry no measurements.  After every GUI event each
\* location that is marked as a base station has an empty measurement list.
C27_StationsHaveNoMeasurements ==
    \A i \in 1..Len(state.locations) :
        state.locations[i].is_base_station =>
            state.locations[i].measurements = <<>>

----------------------------------------------------------------------------
(* C28 *)

\* the squared distance of two positions is more than the squared radius
FartherThanRadius(pt1, pt2) ==
    (pt1[1] - pt2[1]) * (pt1[1] - pt2[1]) + (pt1[2] - pt2[2]) * (pt1[2] - pt2[2])
        > Radius * Radius

\* the click at mouse has selected the first location within the radius and
\* has created none
SelectedFirstWithin(mouse) ==
    /\ state'.locations = state.locations
    /\ proc'.sel \in 1..Len(state.locations)
    /\ ~FartherThanRadius(mouse, state.locations[proc'.sel].position)
    /\ \A j \in 1..(proc'.sel - 1) :
          FartherThanRadius(mouse, state.locations[j].position)

\* the click at mouse, farther than the radius from every location, has
\* appended one location there, no station, and has selected it
AppendedOne(mouse) ==
    /\ \A j \in 1..Len(state.locations) :
          FartherThanRadius(mouse, state.locations[j].position)
    /\ state'.locations = Append(state.locations, Location(mouse))
    /\ proc'.sel = Len(state.locations) + 1

\* C28: click selection.  A click within the radius of a location selects
\* the first such location of the list and creates none; a click farther
\* from all of them appends one location there, no station, and selects
\* it; and any two locations of the list are farther apart than the radius.
C28_ClickSelection ==
    [][/\ (proc.pc = "gui" /\
            \/ proc'.mouse # proc.mouse
            \/ proc'.sel # 0 /\ proc'.sel # proc.sel
            \/ Len(state'.locations) > Len(state.locations)) =>
              \/ SelectedFirstWithin(proc'.mouse[1])
              \/ AppendedOne(proc'.mouse[1])
       /\ \A i, j \in 1..Len(state'.locations) :
             i # j => FartherThanRadius(state'.locations[i].position,
                                        state'.locations[j].position)]_vars

\* the locations at both ends of the row are in the list and a click
\* between them, in the circles of both, has selected the one that is
\* first in the list, which the operator has added after a loaded one
C28_Witness ==
    /\ proc.pc = "gui"
    /\ proc.sel > 1
    /\ proc.mouse = Some(<<17, 20>>)
    /\ state.locations[proc.sel].position \in {<<10, 20>>, <<24, 20>>}
    /\ \E j \in (proc.sel + 1)..Len(state.locations) :
          state.locations[j].position \in {<<10, 20>>, <<24, 20>>}

----------------------------------------------------------------------------
(* C29 *)

\* the number of lines that the first i locations ask for: one train
\* request and one line per measurement for a location with measurements
RECURSIVE LinesUpTo(_, _)
LinesUpTo(locs, i) ==
    IF i = 0 THEN 0
    ELSE LinesUpTo(locs, i - 1) +
             (IF Len(locs[i].measurements) = 0 THEN 0
              ELSE 1 + Len(locs[i].measurements))

----------------------------------------------------------------------------
(* C24 *)

\* the message is one that must not be recorded: a response of locadis, the
\* version of the access point, or a retained message
NotRecorded(m) ==
    \/ m.topic = <<"locadis", "api_res">>
    \/ m.topic = <<"mioty", "ac", "version">>
    \/ m.retain

\* C24: message handling.  In a session, a message of locadis/api_res, a
\* version message and a retained message cause no call of record; an
\* uplink or uplinkDuplicate that is not retained, with n entries in
\* baseStations, causes n calls after the earlier ones, the i-th with the
\* bsEui of the i-th entry and the end point of the topic, and with a
\* sub-measurement exactly when config.sub_measurements is set and the
\* entry has subpackets.
C24_MessageHandling ==
    [][proc.pc = "mqtt" =>
          LET m == proc'.message[1]
              before == Len(proc.calls)
          IN  IF NotRecorded(m)
              THEN proc'.calls = proc.calls
              ELSE /\ Len(proc'.calls) = before + Len(m.baseStations)
                   /\ SubSeq(proc'.calls, 1, before) = proc.calls
                   /\ \A i \in 1..Len(m.baseStations) :
                         /\ proc'.calls[before + i].bs_key = m.baseStations[i].bsEui.text
                         /\ proc'.calls[before + i].ep_key = m.topic[4]
                         /\ (proc'.calls[before + i].sub_measurement # None) <=>
                                (state.sub_measurements /\
                                 m.baseStations[i].subpackets # None)]_vars

\* the second message of a session with sub-measurements is an
\* uplinkDuplicate, not retained, of two entries, the first without
\* subpackets; two calls have followed the calls of the first message
C24_Witness ==
    /\ proc.pc = "mqtt"
    /\ state.sub_measurements
    /\ proc.handled = 2
    /\ proc.message # None
    /\ proc.message[1].topic = <<"mioty", "ac", "v1", "ep", "uplinkDuplicate">>
    /\ ~proc.message[1].retain
    /\ Len(proc.message[1].baseStations) = 2
    /\ Len(proc.calls) = 3
    /\ proc.calls[2].sub_measurement = None
    /\ proc.calls[3].sub_measurement # None
    /\ proc.calls[2].bs_key # proc.calls[3].bs_key

====
